---- MODULE Spec2Model ----
(***************************************************************************)
(* Recipe dashboard (ysc06/web-dev-api): the list view App, the detail     *)
(* view RecipeDetail, their cancellable fetches, and the pure derivations  *)
(* (filter, statistics, key-nutrient series).                              *)
(*                                                                         *)
(* JavaScript runs one task at a time and drains the microtask queue       *)
(* before the next task.  A task here is a navigation (React commits the   *)
(* new route and flushes the effect cleanup and the new effect in one      *)
(* go), a UI event, or the delivery of a network result.  The rejection    *)
(* of an aborted fetch is a microtask: it runs before any later task.      *)
(***************************************************************************)
EXTENDS Integers, Sequences, FiniteSets, TLC

VARIABLES
    apiKey,   \* import.meta.env.VITE_APP_API_KEY is set (fixed per run)
    view,     \* which route element is mounted: "none", "list", "detail"
    id,       \* useParams().id of the detail route (NoId elsewhere)
    app,      \* App's useState cells: recipes, loading, error
    detail,   \* RecipeDetail's useState cells: data, err, loading
    reqs,     \* every fetch() issued so far, in order of issue
    ac,       \* the fetch bound to the current effect's AbortController
              \* (index into reqs; 0 when that effect issued no fetch)
    query,    \* App's useState cell: live search text
    diet      \* App's useState cell: diet selector

vars == <<apiKey, view, id, app, detail, reqs, ac, query, diet>>

-----------------------------------------------------------------------------
(* Bounds *)

MaxReq == 3          \* fetches issued in one run
MaxId  == 2          \* recipe identifiers 1..MaxId
MaxFilterLen == 2    \* recipes in a list the filter is tried on
MaxStatsLen  == 4    \* recipes in a list the statistics are tried on
MaxNutrients == 2    \* entries in a nutrients array

Ids  == 1..MaxId
NoId == 0

-----------------------------------------------------------------------------
(* Option values: JavaScript null is None, a present value x is Some(x). *)

None    == <<>>
Some(x) == <<x>>

\* Error objects: name and message, as the catch clause reads them.
AbortError == [name |-> "AbortError", message |-> "The operation was aborted."]
MkError(msg) == [name |-> "Error", message |-> msg]
FailedToFetch == [name |-> "TypeError", message |-> "Failed to fetch"]
BadJson == [name |-> "SyntaxError", message |-> "Unexpected token"]

\* (the source quotes the npm command with backquotes, written ' here)
AppMissingKey ==
    MkError("Missing API key. Put it in .env as VITE_APP_API_KEY and restart 'npm run dev'.")
DetailMissingKey == MkError("Missing API key (VITE_APP_API_KEY)")

\* template string: HTTP followed by res.status
HttpError(status) == MkError("HTTP " \o ToString(status))

\* Statuses the server may answer with; res.ok is status in 200..299.
Statuses == {200, 404, 500}
\* (variant: only server errors count as failures)
ResOkLax(status) == status < 500

ResOk(status) == status >= 200 /\ status <= 299

-----------------------------------------------------------------------------
(* JavaScript values, tagged by typeof.  Text is a tuple of one-character  *)
(* strings so that trim, toLowerCase and includes can be computed.         *)

Undefined == [t |-> "undefined"]
Null      == [t |-> "null"]
NaN       == [t |-> "nan"]
Infinity  == [t |-> "infinity"]
Num(n)    == [t |-> "number", v |-> n]
Str(s)    == [t |-> "string", v |-> s]
Bool(b)   == [t |-> "boolean", v |-> b]
Arr(a)    == [t |-> "array", v |-> a]
Obj       == [t |-> "object"]

\* A recipe object; a key the response omits reads as undefined.
NoFields ==
    [title |-> Undefined, vegetarian |-> Undefined, vegan |-> Undefined,
     glutenFree |-> Undefined, diets |-> Undefined, readyInMinutes |-> Undefined,
     healthScore |-> Undefined, cuisines |-> Undefined]

-----------------------------------------------------------------------------
(* View state *)

\* App.jsx useState initial values
AppInitial == [recipes |-> <<>>, loading |-> TRUE, error |-> None]

\* RecipeDetail.jsx useState initial values
DetailInitial == [data |-> None, err |-> None, loading |-> TRUE]

\* What each view paints, from its render guards.
AppRendered ==
    IF app.loading THEN "Loading"
    ELSE IF app.error # None THEN "Error"
    ELSE "Dashboard"

DetailRendered ==
    IF detail.loading THEN "Loading"
    ELSE IF detail.err # None THEN "Error"
    ELSE IF detail.data = None THEN "Blank"
    ELSE "Recipe"

-----------------------------------------------------------------------------
(* The async function of each effect, cut at its awaits *)

\* App: setLoading(true); setError(null)
AppBegin(st) == [st EXCEPT !.loading = TRUE, !.error = None]

\* App: setRecipes(Array.isArray(json.results) ? json.results : [])
AppCommit(st, json) ==
    [st EXCEPT !.recipes = IF json.results.t = "array" THEN json.results.v ELSE <<>>]

\* App: catch (e) { if (e.name !== 'AbortError') setError(e.message || String(e)) }
AppCatch(st, e) ==
    IF e.name # "AbortError" THEN [st EXCEPT !.error = Some(e.message)] ELSE st

\* App: finally { setLoading(false) }
AppFinally(st) == [st EXCEPT !.loading = FALSE]

\* RecipeDetail: setLoading(true); setErr(null)
DetailBegin(st) == [st EXCEPT !.loading = TRUE, !.err = None]

\* RecipeDetail: setData(json)
DetailCommit(st, json) == [st EXCEPT !.data = Some(json)]

\* RecipeDetail: catch (e) { if (e.name !== "AbortError") setErr(e.message || String(e)) }
DetailCatch(st, e) ==
    IF e.name # "AbortError" THEN [st EXCEPT !.err = Some(e.message)] ELSE st

\* RecipeDetail: finally { setLoading(false) }
DetailFinally(st) == [st EXCEPT !.loading = FALSE]

\* The part of the async function that runs synchronously inside the effect,
\* up to the first await: either the key is missing and the throw is caught at
\* once, or fetch() is called.
\* (variant: the key is not checked before fetch is called)
AppEffectNoKeyCheck(st) == [state |-> AppBegin(st), fetch |-> TRUE]

AppEffect(st) ==
    IF ~apiKey
    THEN [state |-> AppFinally(AppCatch(AppBegin(st), AppMissingKey)), fetch |-> FALSE]
    ELSE [state |-> AppBegin(st), fetch |-> TRUE]

DetailEffect(st) ==
    IF ~apiKey
    THEN [state |-> DetailFinally(DetailCatch(DetailBegin(st), DetailMissingKey)), fetch |-> FALSE]
    ELSE [state |-> DetailBegin(st), fetch |-> TRUE]

-----------------------------------------------------------------------------
(* Requests *)

NoStatus == 0    \* no response object yet

Fulfilled == [name |-> "fulfilled", message |-> ""]

\* fetch(url, { signal: ac.signal }) just issued by the live instance of view v
NewRequest(v, i) ==
    [view |-> v, id |-> i, aborted |-> FALSE, live |-> TRUE, pc |-> "fetch",
     status |-> NoStatus, outcome |-> None]

\* (variant: the effect returns no cleanup)
CleanupNoAbort(rs) == rs

\* return () => ac.abort(): the effect cleanup aborts its own controller
Cleanup(rs) ==
    IF ac = 0 THEN rs ELSE [rs EXCEPT ![ac].aborted = TRUE]

\* The mounted element goes away: React drops its state cells, so a later
\* setter call from one of its requests changes nothing.
Unmounted(rs) == [r \in DOMAIN rs |-> [rs[r] EXCEPT !.live = FALSE]]

\* An aborted fetch (or body read) has a rejection with AbortError queued.
AbortPending(r) == reqs[r].aborted /\ reqs[r].pc # "done"

\* The microtask queue is empty: the next task may run.
Idle == \A r \in DOMAIN reqs : ~AbortPending(r)

\* The information endpoint answers with the record of the identifier asked for.
DetailNutrition == Undefined
DetailBodies(i) == {[id |-> i, nutrition |-> DetailNutrition]}

\* The search endpoint answers with a results array, or with a body without one.
SearchBodies ==
    {[results |-> Arr(<<[NoFields EXCEPT !.title = Str(<<"a">>)]>>)],
     [results |-> Arr(<<>>)],
     [results |-> Undefined]}

Bodies(r) ==
    IF reqs[r].view = "list" THEN SearchBodies ELSE DetailBodies(reqs[r].id)

-----------------------------------------------------------------------------
(* Initial state: the bundle is loaded, nothing is mounted yet *)

Init ==
    /\ apiKey \in BOOLEAN
    /\ view = "none"
    /\ id = NoId
    /\ app = AppInitial
    /\ detail = DetailInitial
    /\ reqs = <<>>
    /\ ac = 0
    /\ query = <<>>
    /\ diet = "all"

-----------------------------------------------------------------------------
(* Navigation *)

\* Room for the fetch a new effect may issue.
Budget == Len(reqs) < MaxReq

\* The router shows "/" : whatever was mounted is torn down (its cleanup
\* runs), App mounts with fresh state and its effect runs.
NavigateList ==
    /\ view # "list"
    /\ Idle
    /\ Budget
    /\ LET eff == AppEffect(AppInitial)
           old == Unmounted(Cleanup(reqs))
       IN  /\ app' = eff.state
           /\ reqs' = IF eff.fetch THEN Append(old, NewRequest("list", NoId)) ELSE old
           /\ ac' = IF eff.fetch THEN Len(old) + 1 ELSE 0
    /\ view' = "list"
    /\ id' = NoId
    /\ detail' = DetailInitial
    /\ query' = <<>>
    /\ diet' = "all"
    /\ UNCHANGED apiKey

\* The router shows "recipe/:id" from another element: RecipeDetail mounts
\* with fresh state and its effect runs.
OpenDetail(i) ==
    /\ view # "detail"
    /\ Idle
    /\ Budget
    /\ LET eff == DetailEffect(DetailInitial)
           old == Unmounted(Cleanup(reqs))
       IN  /\ detail' = eff.state
           /\ reqs' = IF eff.fetch THEN Append(old, NewRequest("detail", i)) ELSE old
           /\ ac' = IF eff.fetch THEN Len(old) + 1 ELSE 0
    /\ view' = "detail"
    /\ id' = i
    /\ app' = AppInitial
    /\ query' = <<>>
    /\ diet' = "all"
    /\ UNCHANGED apiKey

\* The :id parameter changes while RecipeDetail stays mounted: the state
\* cells are kept, the previous effect's cleanup runs, then the effect runs
\* again for the new id.
ChangeId(i) ==
    /\ view = "detail"
    /\ id # i
    /\ Idle
    /\ Budget
    /\ LET eff == DetailEffect(detail)
           old == Cleanup(reqs)
       IN  /\ detail' = eff.state
           /\ reqs' = IF eff.fetch THEN Append(old, NewRequest("detail", i)) ELSE old
           /\ ac' = IF eff.fetch THEN Len(old) + 1 ELSE 0
    /\ id' = i
    /\ UNCHANGED <<apiKey, view, app, query, diet>>

-----------------------------------------------------------------------------
(* Completion of a request *)

\* The async function of request r ends by throwing e or, when json is
\* given, by committing it: the state its view is left in.
AppSettled(st, e) == AppFinally(AppCatch(st, e))
DetailSettled(st, e) == DetailFinally(DetailCatch(st, e))

\* Request r is over with outcome o; the setters it called produced appNew or
\* detailNew, which take effect only on a mounted instance.
Finish(r, status, o, appNew, detailNew) ==
    /\ reqs' = [reqs EXCEPT ![r].pc = "done", ![r].status = status,
                            ![r].outcome = Some(o)]
    /\ app' = IF reqs[r].view = "list" /\ reqs[r].live THEN appNew ELSE app
    /\ detail' = IF reqs[r].view = "detail" /\ reqs[r].live THEN detailNew ELSE detail
    /\ UNCHANGED <<apiKey, view, id, ac, query, diet>>

Throws(r, status, e) ==
    Finish(r, status, e, AppSettled(app, e), DetailSettled(detail, e))

\* await fetch(...) resolves with a response of the given status;
\* if (!res.ok) throw new Error(HTTP status), else res.json() is awaited.
FetchResolves(r, status) ==
    /\ reqs[r].pc = "fetch"
    /\ ~reqs[r].aborted
    /\ Idle
    /\ IF ResOk(status)
       THEN /\ reqs' = [reqs EXCEPT ![r].pc = "json", ![r].status = status]
            /\ UNCHANGED <<apiKey, view, id, app, detail, ac, query, diet>>
       ELSE Throws(r, status, HttpError(status))

\* await fetch(...) rejects: the network failed.
FetchRejects(r) ==
    /\ reqs[r].pc = "fetch"
    /\ ~reqs[r].aborted
    /\ Idle
    /\ Throws(r, reqs[r].status, FailedToFetch)

\* await res.json() resolves: the result is committed, then finally runs.
JsonResolves(r, json) ==
    /\ reqs[r].pc = "json"
    /\ ~reqs[r].aborted
    /\ Idle
    /\ Finish(r, reqs[r].status, Fulfilled, AppFinally(AppCommit(app, json)),
              DetailFinally(DetailCommit(detail, json)))

\* await res.json() rejects: the body is not JSON.
JsonRejects(r) ==
    /\ reqs[r].pc = "json"
    /\ ~reqs[r].aborted
    /\ Idle
    /\ Throws(r, reqs[r].status, BadJson)

\* The pending await of an aborted request rejects with AbortError.
AbortRejects(r) ==
    /\ AbortPending(r)
    /\ Throws(r, reqs[r].status, AbortError)

-----------------------------------------------------------------------------
(* Controls of the dashboard, painted once App neither loads nor failed *)

Queries == {<<>>, <<" ">>, <<"t", "a">>, <<" ", "T", "A", " ">>, <<"b">>}
Diets == {"all", "vegetarian", "vegan", "glutenFree"}

\* onChange={e => setQuery(e.target.value)}
SetQuery(q) ==
    /\ view = "list"
    /\ Idle
    /\ AppRendered = "Dashboard"
    /\ query # q
    /\ query' = q
    /\ UNCHANGED <<apiKey, view, id, app, detail, reqs, ac, diet>>

\* onChange={e => setDiet(e.target.value)}
SetDiet(d) ==
    /\ view = "list"
    /\ Idle
    /\ AppRendered = "Dashboard"
    /\ diet # d
    /\ diet' = d
    /\ UNCHANGED <<apiKey, view, id, app, detail, reqs, ac, query>>

-----------------------------------------------------------------------------

Next ==
    \/ NavigateList
    \/ \E i \in Ids : OpenDetail(i)
    \/ \E i \in Ids : ChangeId(i)
    \/ \E r \in DOMAIN reqs, s \in Statuses : FetchResolves(r, s)
    \/ \E r \in DOMAIN reqs : FetchRejects(r)
    \/ \E r \in DOMAIN reqs : \E json \in Bodies(r) : JsonResolves(r, json)
    \/ \E r \in DOMAIN reqs : JsonRejects(r)
    \/ \E r \in DOMAIN reqs : AbortRejects(r)
    \/ \E q \in Queries : SetQuery(q)
    \/ \E d \in Diets : SetDiet(d)

Spec == Init /\ [][Next]_vars

-----------------------------------------------------------------------------
(* Text: String.prototype.trim, toLowerCase, includes *)

IsSpace(c) == c \in {" ", "\t", "\n"}

UpperChars ==
    <<"A","B","C","D","E","F","G","H","I","J","K","L","M",
      "N","O","P","Q","R","S","T","U","V","W","X","Y","Z">>
LowerChars ==
    <<"a","b","c","d","e","f","g","h","i","j","k","l","m",
      "n","o","p","q","r","s","t","u","v","w","x","y","z">>

\* One character lower-cased (the letters A to Z; others are left alone).
LowerChar(c) ==
    IF \E k \in 1..Len(UpperChars) : UpperChars[k] = c
    THEN LowerChars[CHOOSE k \in 1..Len(UpperChars) : UpperChars[k] = c]
    ELSE c

ToLowerCase(s) == [i \in 1..Len(s) |-> LowerChar(s[i])]

RECURSIVE TrimStart(_)
TrimStart(s) ==
    IF s # <<>> /\ IsSpace(Head(s)) THEN TrimStart(Tail(s)) ELSE s

RECURSIVE TrimEnd(_)
TrimEnd(s) ==
    IF s # <<>> /\ IsSpace(s[Len(s)]) THEN TrimEnd(SubSeq(s, 1, Len(s) - 1)) ELSE s

Trim(s) == TrimEnd(TrimStart(s))

\* s.includes(q) on text: q occurs in s as a contiguous run
TextIncludes(s, q) ==
    \E k \in 0..(Len(s) - Len(q)) : SubSeq(s, k + 1, k + Len(q)) = q

\* ToBoolean
Truthy(v) ==
    CASE v.t = "undefined" -> FALSE
      [] v.t = "null" -> FALSE
      [] v.t = "nan" -> FALSE
      [] v.t = "number" -> v.v # 0
      [] v.t = "string" -> v.v # <<>>
      [] v.t = "boolean" -> v.v
      [] OTHER -> TRUE

-----------------------------------------------------------------------------
(* Filter: the callback of recipes.filter in the filtered memo *)

TagVegetarian == <<"v","e","g","e","t","a","r","i","a","n">>
TagVegan      == <<"v","e","g","a","n">>
TagGlutenFree == <<"g","l","u","t","e","n"," ","f","r","e","e">>

\* (r.title || '').toLowerCase() throws a TypeError when the truthy title
\* has no toLowerCase method, that is when it is not text.
TitleThrows(r) == Truthy(r.title) /\ r.title.t # "string"

\* const title = (r.title || '').toLowerCase()
Title(r) == IF Truthy(r.title) THEN ToLowerCase(r.title.v) ELSE <<>>

\* (variant: the query is compared without lower-casing the title)
MatchQCaseSensitive(r, q) ==
    q = <<>> \/ TextIncludes(IF Truthy(r.title) THEN r.title.v ELSE <<>>, q)

\* const matchQ = q === '' || title.includes(q)
MatchQ(r, q) == q = <<>> \/ TextIncludes(Title(r), q)

\* (r.diets || []).includes(tag) throws a TypeError when the truthy diets
\* has no includes method: arrays and text have one.
DietsThrows(r) == Truthy(r.diets) /\ ~(r.diets.t \in {"array", "string"})

\* (r.diets || []).includes(tag): membership for an array, substring for text
DietsIncludes(r, tag) ==
    IF ~Truthy(r.diets) THEN FALSE
    ELSE IF r.diets.t = "array"
         THEN \E k \in 1..Len(r.diets.v) : r.diets.v[k] = Str(tag)
         ELSE TextIncludes(r.diets.v, tag)

\* !!flag || (r.diets || []).includes(tag): the right side is evaluated only
\* when the flag is falsy.
FlagThrows(flag, r) == ~Truthy(flag) /\ DietsThrows(r)
Flag(flag, r, tag) == Truthy(flag) \/ DietsIncludes(r, tag)

\* const flags = { vegetarian: ..., vegan: ..., glutenFree: ... }
FlagsThrow(r) ==
    \/ FlagThrows(r.vegetarian, r)
    \/ FlagThrows(r.vegan, r)
    \/ FlagThrows(r.glutenFree, r)

\* const matchDiet = (diet === 'vegetarian' && flags.vegetarian) || ...
MatchDiet(r, d) ==
    \/ d = "vegetarian" /\ Flag(r.vegetarian, r, TagVegetarian)
    \/ d = "vegan" /\ Flag(r.vegan, r, TagVegan)
    \/ d = "glutenFree" /\ Flag(r.glutenFree, r, TagGlutenFree)

\* The callback throws: on the title, or past the early return on the flags.
CallbackThrows(r, d) == TitleThrows(r) \/ (d # "all" /\ FlagsThrow(r))

\* The callback's return value.
Callback(r, q, d) ==
    IF d = "all" THEN MatchQ(r, q) ELSE MatchQ(r, q) /\ MatchDiet(r, d)

\* Array.prototype.filter: the kept elements, in order.
RECURSIVE FilterFrom(_, _, _, _)
FilterFrom(rs, k, q, d) ==
    IF k > Len(rs) THEN <<>>
    ELSE IF Callback(rs[k], q, d)
         THEN <<rs[k]>> \o FilterFrom(rs, k + 1, q, d)
         ELSE FilterFrom(rs, k + 1, q, d)

\* The filtered memo for given recipes, query and diet: a thrown TypeError,
\* or the filtered list.
Filtered(rs, qry, d) ==
    LET q == ToLowerCase(Trim(qry))
    IN  IF \E k \in 1..Len(rs) : CallbackThrows(rs[k], d)
        THEN [threw |-> TRUE, value |-> <<>>]
        ELSE [threw |-> FALSE, value |-> FilterFrom(rs, 1, q, d)]

\* const filtered = useMemo(..., [recipes, query, diet])
filtered == Filtered(app.recipes, query, diet)

-----------------------------------------------------------------------------
(* Numbers: Number(v), Number.isFinite, toFixed(1) *)

DigitChars == <<"0", "1", "2", "3", "4", "5", "6", "7", "8", "9">>

IsDigit(c) == \E k \in 1..Len(DigitChars) : DigitChars[k] = c
DigitValue(c) == (CHOOSE k \in 1..Len(DigitChars) : DigitChars[k] = c) - 1

\* The value of a run of decimal digits.
RECURSIVE DigitsValue(_)
DigitsValue(s) ==
    IF s = <<>> THEN 0
    ELSE DigitsValue(SubSeq(s, 1, Len(s) - 1)) * 10 + DigitValue(s[Len(s)])

\* Number(text): white space is trimmed, empty text is 0, decimal digits are
\* their value, anything else the inputs contain is NaN.
StringToNumber(s) ==
    LET t == Trim(s)
    IN  IF t = <<>> THEN Num(0)
        ELSE IF \A k \in 1..Len(t) : IsDigit(t[k]) THEN Num(DigitsValue(t))
        ELSE NaN

\* Number(v) for primitive v
ToNumber(v) ==
    CASE v.t = "undefined" -> NaN
      [] v.t = "null" -> Num(0)
      [] v.t = "boolean" -> Num(IF v.v THEN 1 ELSE 0)
      [] v.t = "number" -> v
      [] v.t = "nan" -> NaN
      [] v.t = "infinity" -> v
      [] v.t = "string" -> StringToNumber(v.v)

\* Number.isFinite(n)
IsFinite(n) == n.t = "number"

\* Decimal digits of a natural number.
RECURSIVE NatToText(_)
NatToText(n) ==
    IF n < 10 THEN <<DigitChars[n + 1]>>
    ELSE NatToText(n \div 10) \o <<DigitChars[(n % 10) + 1]>>

\* (num / den).toFixed(1) for num >= 0 and 0 < den < 20: the quotient to the
\* nearest tenth, a tie going up, written with exactly one decimal.  (Below
\* den = 20 a tie is a multiple of 1/4, which a double holds exactly, and
\* toFixed takes the larger candidate of a tie.)
ToFixed1(num, den) ==
    LET tenths == (20 * num + den) \div (2 * den)
    IN  NatToText(tenths \div 10) \o <<".">> \o NatToText(tenths % 10)

\* The sentinel text shown when there is nothing to aggregate: the one
\* character U+2014.
Sentinel == Str(<<"EM DASH">>)

RECURSIVE SumSeq(_)
SumSeq(s) == IF s = <<>> THEN 0 ELSE Head(s) + SumSeq(Tail(s))

\* Insert x into an ascending list, after the elements equal to it.
RECURSIVE Insert(_, _)
Insert(s, x) ==
    IF s = <<>> THEN <<x>>
    ELSE IF x < Head(s) THEN <<x>> \o s
    ELSE <<Head(s)>> \o Insert(Tail(s), x)

\* .sort((a, b) => a - b)
RECURSIVE SortAscending(_)
SortAscending(s) ==
    IF s = <<>> THEN <<>>
    ELSE Insert(SortAscending(SubSeq(s, 1, Len(s) - 1)), s[Len(s)])

-----------------------------------------------------------------------------
(* Statistics: the stats memo *)

\* .map(r => Number(r.field)).filter(n => Number.isFinite(n)), as integers
RECURSIVE FiniteNumbers(_)
FiniteNumbers(vs) ==
    IF vs = <<>> THEN <<>>
    ELSE LET n == ToNumber(Head(vs))
         IN  (IF IsFinite(n) THEN <<n.v>> ELSE <<>>) \o FiniteNumbers(Tail(vs))

ReadyValues(rs) == [k \in 1..Len(rs) |-> rs[k].readyInMinutes]
HealthValues(rs) == [k \in 1..Len(rs) |-> rs[k].healthScore]

\* const ready = filtered.map(...).filter(...)
Ready(rs) == FiniteNumbers(ReadyValues(rs))

\* ready.length ? (sum / ready.length).toFixed(1) : sentinel
AvgReady(rs) ==
    LET ready == Ready(rs)
    IN  IF Len(ready) # 0 THEN Str(ToFixed1(SumSeq(ready), Len(ready))) ELSE Sentinel

\* const hs = filtered.map(...).filter(...).sort((a, b) => a - b)
Hs(rs) == SortAscending(FiniteNumbers(HealthValues(rs)))

\* hs.length ? (hs.length % 2 ? hs[(hs.length - 1) / 2]
\*                            : ((hs[hs.length / 2 - 1] + hs[hs.length / 2]) / 2).toFixed(1))
\*           : sentinel          (indices below are the source's, plus one)
MedianHS(rs) ==
    LET hs == Hs(rs)
    IN  IF Len(hs) # 0
        THEN IF Len(hs) % 2 # 0
             THEN Num(hs[(Len(hs) - 1) \div 2 + 1])
             ELSE Str(ToFixed1(hs[Len(hs) \div 2] + hs[Len(hs) \div 2 + 1], 2))
        ELSE Sentinel

\* filtered.flatMap(r => Array.isArray(r.cuisines) ? r.cuisines : []).filter(Boolean),
\* collected into a Set
CuisineSet(rs) ==
    {c \in UNION {IF rs[k].cuisines.t = "array"
                  THEN {rs[k].cuisines.v[j] : j \in 1..Len(rs[k].cuisines.v)}
                  ELSE {} : k \in 1..Len(rs)} : Truthy(c)}

\* (variant: the size is shown as it is, 0 included)
CuisinesNoSentinel(rs) == Num(Cardinality(CuisineSet(rs)))

\* new Set(...).size || sentinel
Cuisines(rs) ==
    IF Cardinality(CuisineSet(rs)) # 0 THEN Num(Cardinality(CuisineSet(rs))) ELSE Sentinel

\* const stats = useMemo(..., [filtered]): computed when the filter did not throw
stats ==
    LET list == filtered.value
    IN  [total |-> Len(list),
         avgReady |-> AvgReady(list),
         medianHS |-> MedianHS(list),
         cuisines |-> Cuisines(list)]

-----------------------------------------------------------------------------
(* The dashboard once a search response has been loaded *)

TitleVT == <<"V", " ", "T", "a">>
TitleBa == <<"B", "a">>

\* Records as the search endpoint documents them: text title, boolean flags,
\* an array of diet tags; any of them may be missing.
WellFormedRecipes ==
    {[NoFields EXCEPT !.title = Str(TitleVT), !.vegetarian = Bool(TRUE),
                      !.vegan = Bool(TRUE), !.glutenFree = Bool(FALSE),
                      !.diets = Arr(<<Str(TagVegan)>>)],
     [NoFields EXCEPT !.title = Str(TitleBa), !.vegetarian = Bool(FALSE),
                      !.vegan = Bool(FALSE), !.glutenFree = Bool(FALSE),
                      !.diets = Arr(<<>>)],
     [NoFields EXCEPT !.title = Str(TitleBa),
                      !.diets = Arr(<<Str(TagGlutenFree), Str(TagVegetarian)>>)],
     [NoFields EXCEPT !.vegan = Bool(TRUE)],
     [NoFields EXCEPT !.title = Str(<<>>), !.glutenFree = Bool(TRUE)],
     [NoFields EXCEPT !.title = Str(TitleVT), !.vegetarian = Bool(FALSE),
                      !.vegan = Bool(FALSE), !.glutenFree = Bool(FALSE)]}

\* Records with a field of the wrong type.
MalformedRecipes ==
    {[NoFields EXCEPT !.title = Num(7)],
     [NoFields EXCEPT !.title = Bool(TRUE), !.vegan = Bool(TRUE)],
     [NoFields EXCEPT !.title = Null, !.diets = Null],
     [NoFields EXCEPT !.title = Str(TitleBa), !.diets = Num(5)],
     [NoFields EXCEPT !.title = Str(TitleBa), !.diets = Str(TagVegan)],
     [NoFields EXCEPT !.title = Str(TitleBa), !.vegan = Str(<<"n", "o">>)]}

FilterRecipes == WellFormedRecipes \cup MalformedRecipes

\* Values a response may carry in readyInMinutes and healthScore.
StatsValues ==
    <<Num(10), Num(20), Num(30), Num(40), Undefined, Null, Str(<<>>),
      Str(<<"a">>), Bool(TRUE)>>

\* Values a response may carry in cuisines: arrays of names (one of them
\* with an empty name), no array at all.
StatsCuisines ==
    <<Arr(<<Str(<<"T", "h", "a", "i">>)>>),
      Arr(<<Str(<<"T", "h", "a", "i">>), Str(<<"B", "B", "Q">>)>>),
      Arr(<<Str(<<>>)>>),
      Undefined,
      Str(<<"T", "h", "a", "i">>)>>

\* Records without title or diet data, one per value of readyInMinutes, with
\* the next value of the list as healthScore and the cuisines taken in turn.
StatsRecipes ==
    {[NoFields EXCEPT !.readyInMinutes = StatsValues[k],
                      !.healthScore = StatsValues[(k % Len(StatsValues)) + 1],
                      !.cuisines = StatsCuisines[(k % Len(StatsCuisines)) + 1]] :
        k \in 1..Len(StatsValues)}

\* All lists of at most n elements of S.
ListsUpTo(S, n) == UNION {[1..m -> S] : m \in 0..n}

LoadedLists ==
    ListsUpTo(FilterRecipes, MaxFilterLen) \cup ListsUpTo(StatsRecipes, MaxStatsLen)

\* App has loaded a list: its one request is over, the dashboard is painted.
DashboardInit ==
    /\ apiKey = TRUE
    /\ view = "list"
    /\ id = NoId
    /\ \E rs \in LoadedLists :
          app = AppFinally(AppCommit(AppBegin(AppInitial), [results |-> Arr(rs)]))
    /\ detail = DetailInitial
    /\ reqs = <<[NewRequest("list", NoId) EXCEPT !.pc = "done", !.status = 200,
                                                 !.outcome = Some(Fulfilled)]>>
    /\ ac = 1
    /\ query = <<>>
    /\ diet = "all"

\* The user works the controls.
DashboardNext ==
    \/ \E q \in Queries : SetQuery(q)
    \/ \E d \in Diets : SetDiet(d)

DashboardSpec == DashboardInit /\ [][DashboardNext]_vars

-----------------------------------------------------------------------------
(* NutritionCharts: the key-nutrient series *)

Calories      == <<"C","a","l","o","r","i","e","s">>
Protein       == <<"P","r","o","t","e","i","n">>
Fat           == <<"F","a","t">>
Carbohydrates == <<"C","a","r","b","o","h","y","d","r","a","t","e","s">>
Fiber         == <<"F","i","b","e","r">>
Sugar         == <<"S","u","g","a","r">>

Kcal == <<"k","c","a","l">>
Gram == <<"g">>

\* A nutrition object and an entry of its nutrients array.
Nutrition(ns) == [t |-> "object", nutrients |-> ns]
Nutrient(n, a, u) == [t |-> "object", name |-> n, amount |-> a, unit |-> u]

\* const nutrients = Array.isArray(nutrition?.nutrients) ? nutrition.nutrients : []
Nutrients(nutrition) ==
    IF /\ "nutrients" \in DOMAIN nutrition
       /\ nutrition.nutrients.t = "array"
    THEN nutrition.nutrients.v
    ELSE <<>>

\* (variant: names are compared ignoring case)
NameMatchesAnyCase(x, name) ==
    /\ "name" \in DOMAIN x
    /\ x.name.t = "string"
    /\ ToLowerCase(x.name.v) = ToLowerCase(name)

\* x?.name === name
NameMatches(x, name) == "name" \in DOMAIN x /\ x.name = Str(name)

\* find(name, fallbackUnit): nutrients.find takes the first match;
\* { amount: n ? Number(n.amount) : 0, unit: n?.unit || fallbackUnit }
Find(nutrients, name, fallbackUnit) ==
    LET hits == {k \in 1..Len(nutrients) : NameMatches(nutrients[k], name)}
    IN  IF hits = {}
        THEN [amount |-> Num(0), unit |-> Str(fallbackUnit)]
        ELSE LET n == nutrients[CHOOSE k \in hits : \A j \in hits : k <= j]
             IN  [amount |-> ToNumber(n.amount),
                  unit |-> IF Truthy(n.unit) THEN n.unit ELSE Str(fallbackUnit)]

BAR_KEYS == <<Calories, Protein, Fat, Carbohydrates, Fiber, Sugar>>

\* const barData = BAR_KEYS.map(k => { find(k, k === "Calories" ? "kcal" : "g") ... })
BarData(nutrition) ==
    [k \in 1..Len(BAR_KEYS) |->
        LET f == Find(Nutrients(nutrition), BAR_KEYS[k],
                      IF BAR_KEYS[k] = Calories THEN Kcal ELSE Gram)
        IN  [name |-> BAR_KEYS[k], amount |-> f.amount, unit |-> f.unit]]

\* The series for the record the detail view holds (const nutrition = data?.nutrition).
barData == BarData(IF detail.data = None THEN Undefined ELSE detail.data[1].nutrition)

-----------------------------------------------------------------------------
(* The detail view once a record has been loaded *)

\* Entries a nutrients array may hold: exact names, a near miss, a missing
\* unit, a textual amount, and null.
NutrientEntries ==
    {Nutrient(Str(Calories), Num(250), Str(Kcal)),
     Nutrient(Str(Fiber), Num(3), Undefined),
     Nutrient(Str(Fiber), Str(<<"8">>), Str(<<"m","g">>)),
     Nutrient(Str(<<"f","i","b","e","r">>), Num(9), Str(Gram)),
     Null}

NutritionRecords ==
    {Undefined, Null, Nutrition(Undefined), Nutrition(Str(Fiber))}
    \cup {Nutrition(Arr(ns)) : ns \in ListsUpTo(NutrientEntries, MaxNutrients)}

\* RecipeDetail has loaded the record of some identifier.
NutritionInit ==
    /\ apiKey = TRUE
    /\ view = "detail"
    /\ id \in Ids
    /\ app = AppInitial
    /\ \E n \in NutritionRecords :
          detail = DetailFinally(DetailCommit(DetailBegin(DetailInitial),
                                              [id |-> id, nutrition |-> n]))
    /\ reqs = <<[NewRequest("detail", id) EXCEPT !.pc = "done", !.status = 200,
                                                 !.outcome = Some(Fulfilled)]>>
    /\ ac = 1
    /\ query = <<>>
    /\ diet = "all"

NutritionSpec == NutritionInit /\ [][Next]_vars

-----------------------------------------------------------------------------
(* Properties of the fetching views *)

\* The view state cells.
viewState == <<app, detail>>

\* C1: once a request has been aborted, its completion path writes none of
\* the view's records, error or loading flags.
C1_CancelledWritesNothing ==
    [][\A r \in DOMAIN reqs :
          (AbortPending(r) /\ reqs'[r].pc = "done") => UNCHANGED viewState]_vars

\* Every request is over.
Quiescent == \A r \in DOMAIN reqs : reqs[r].pc = "done"

\* The detail view asked for some other identifier before the current one.
AskedForOther(r) ==
    /\ reqs[r].view = "detail"
    /\ reqs[r].live
    /\ reqs[r].id # id
    /\ r # ac

\* C2: the detail view requested A, the route changed to B: once everything
\* has been delivered, what is painted is B's record or B's error, never A's
\* record.
C2_FinalStateIsCurrentId ==
    (/\ view = "detail"
     /\ ac # 0
     /\ Quiescent
     /\ \E r \in DOMAIN reqs : AskedForOther(r))
    => /\ DetailRendered \in {"Recipe", "Error"}
       /\ DetailRendered = "Recipe" =>
            /\ detail.data[1].id = id
            /\ reqs[ac].outcome = Some(Fulfilled)
       /\ DetailRendered = "Error" =>
            /\ reqs[ac].outcome # Some(Fulfilled)
            /\ detail.err = Some(reqs[ac].outcome[1].message)

\* A was aborted before its response arrived, and B's record is painted.
C2_Witness ==
    /\ view = "detail"
    /\ ac # 0
    /\ Quiescent
    /\ \E r \in DOMAIN reqs :
          AskedForOther(r) /\ reqs[r].outcome = Some(AbortError)
    /\ DetailRendered = "Recipe"
    /\ detail.data[1].id = id

\* C3: without an API key no request is ever sent; the mounted view is in
\* the error state with its missing-key message, not loading, and its
\* records are as they were before the load.
C3_MissingKeyIsLocal ==
    ~apiKey =>
       /\ reqs = <<>>
       /\ view = "list" =>
            /\ app.error = Some(AppMissingKey.message)
            /\ ~app.loading
            /\ app.recipes = AppInitial.recipes
            /\ AppRendered = "Error"
       /\ view = "detail" =>
            /\ detail.err = Some(DetailMissingKey.message)
            /\ ~detail.loading
            /\ detail.data = DetailInitial.data
            /\ DetailRendered = "Error"

\* Without a key, both views have been visited and the identifier changed.
C3_Witness ==
    /\ ~apiKey
    /\ view = "detail"
    /\ id = MaxId
    /\ DetailRendered = "Error"

\* The message the views show for a response of the given status.
HttpMessage(status) == "HTTP " \o ToString(status)

\* C4: a request that was not cancelled and gets a non-success status ends its
\* load in the error state with a message carrying the status, leaves the
\* loaded records alone, and no request is issued except by a navigation.
C4_HttpErrorIsTerminal ==
    [][/\ \A r \in DOMAIN reqs :
            (/\ reqs[r].pc = "fetch"
             /\ ~reqs[r].aborted
             /\ reqs'[r].status # NoStatus
             /\ ~(reqs'[r].status \in 200..299))
            => /\ reqs'[r].pc = "done"
               /\ Len(reqs') = Len(reqs)
               /\ reqs[r].view = "list" =>
                    /\ app' = [app EXCEPT !.error = Some(HttpMessage(reqs'[r].status)),
                                          !.loading = FALSE]
                    /\ AppRendered' = "Error"
               /\ reqs[r].view = "detail" =>
                    /\ detail' = [detail EXCEPT !.err = Some(HttpMessage(reqs'[r].status)),
                                                !.loading = FALSE]
                    /\ DetailRendered' = "Error"
       /\ Len(reqs') > Len(reqs) => (view' # view \/ id' # id)]_vars

\* The detail view shows HTTP 404 for the current identifier while the
\* record of an earlier identifier is still held.
C4_Witness ==
    /\ view = "detail"
    /\ ac # 0
    /\ reqs[ac].pc = "done"
    /\ reqs[ac].status = 404
    /\ detail.err = Some("HTTP 404")
    /\ detail.data # None
    /\ DetailRendered = "Error"

\* Requests in flight whose result would still be taken.
Active == {r \in DOMAIN reqs : reqs[r].pc # "done" /\ ~reqs[r].aborted}

\* C5: at most one request is in flight and not cancelled; every request but
\* the one issued last has been aborted, so a new request starts only after
\* the previous one was aborted.
C5_AtMostOneActive ==
    /\ Cardinality(Active) <= 1
    /\ \A r \in DOMAIN reqs : r # Len(reqs) => reqs[r].aborted

\* The detail view has just started a request for a new identifier while the
\* aborted request for the previous one has not settled yet.
C5_Witness ==
    /\ view = "detail"
    /\ \E r \in DOMAIN reqs :
          /\ r # ac
          /\ reqs[r].view = "detail"
          /\ reqs[r].live
          /\ reqs[r].id # id
          /\ AbortPending(r)
    /\ ac \in Active

\* C12: whenever the detail view paints a recipe record (not loading, no
\* error, data present), that record is the response for the current route
\* identifier, and the request for the current identifier is no longer in
\* flight: a record of an identifier visited earlier is never painted meanwhile.
C12_PaintedRecordIsCurrent ==
    (view = "detail" /\ DetailRendered = "Recipe") =>
       /\ detail.data[1].id = id
       /\ ac # 0
       /\ reqs[ac].pc = "done"
       /\ reqs[ac].outcome = Some(Fulfilled)

-----------------------------------------------------------------------------
(* Properties of the dashboard derivations *)

\* A value the aggregator is meant to use: a finite number, or numeric text.
IsNumericValue(v) ==
    \/ v.t = "number"
    \/ /\ v.t = "string"
       /\ Trim(v.v) # <<>>
       /\ \A k \in 1..Len(Trim(v.v)) : IsDigit(Trim(v.v)[k])

\* How many elements of a list of values are numeric.
NumericCount(vs) == Cardinality({k \in 1..Len(vs) : IsNumericValue(vs[k])})

\* C6: a readyInMinutes or healthScore that is absent, null, empty text, a
\* boolean or non-numeric text is left out of the mean and of the median: the
\* numbers aggregated are exactly the numeric values of the filtered items.
C6_NonNumericExcluded ==
    ~filtered.threw =>
       /\ Len(Ready(filtered.value)) = NumericCount(ReadyValues(filtered.value))
       /\ Len(Hs(filtered.value)) = NumericCount(HealthValues(filtered.value))

\* The record has the documented shape.
WellFormed(r) ==
    /\ r.title.t \in {"string", "undefined"}
    /\ \A f \in {r.vegetarian, r.vegan, r.glutenFree} : f.t \in {"boolean", "undefined"}
    /\ \/ r.diets.t = "undefined"
       \/ /\ r.diets.t = "array"
          /\ \A k \in 1..Len(r.diets.v) : r.diets.v[k].t = "string"

\* The text predicate of the contract, on the current query.
TextPredicate(r) ==
    LET q == ToLowerCase(Trim(query))
        title == IF r.title.t = "string" THEN ToLowerCase(r.title.v) ELSE <<>>
    IN  q = <<>> \/ \E k \in 0..(Len(title) - Len(q)) :
                        \A j \in 1..Len(q) : title[k + j] = q[j]

\* The diet predicate of the contract, on the current selector.
HasTag(r, tag) ==
    r.diets.t = "array" /\ \E k \in 1..Len(r.diets.v) : r.diets.v[k] = Str(tag)

DietPredicate(r) ==
    \/ diet = "all"
    \/ diet = "vegetarian" /\ (r.vegetarian = Bool(TRUE) \/ HasTag(r, TagVegetarian))
    \/ diet = "vegan" /\ (r.vegan = Bool(TRUE) \/ HasTag(r, TagVegan))
    \/ diet = "glutenFree" /\ (r.glutenFree = Bool(TRUE) \/ HasTag(r, TagGlutenFree))

\* Positions of the loaded list that satisfy both predicates.
Passing ==
    {k \in 1..Len(app.recipes) :
        TextPredicate(app.recipes[k]) /\ DietPredicate(app.recipes[k])}

\* out is the elements of in at the positions K, in their order, once each.
IsSelection(out, in, K) ==
    /\ Len(out) = Cardinality(K)
    /\ \A k \in K : out[Cardinality({j \in K : j <= k})] = in[k]

C8_FilterNeverThrows ==
    /\ ~filtered.threw
    /\ \A k \in 1..Len(app.recipes) :
          LET r == app.recipes[k]
              kept == \E j \in 1..Len(filtered.value) : filtered.value[j] = r
          IN  /\ (r.title.t # "string" /\ Trim(query) # <<>>) => ~kept
              /\ (diet # "all" /\ ~DietPredicate(r)) => ~kept

\* All healthScore values of the filtered items are numbers.
HealthAllNumbers ==
    \A k \in 1..Len(filtered.value) : filtered.value[k].healthScore.t = "number"

\* The median the contract describes, for an ascending list of numbers: the
\* middle value; for an even count the mean of the two middle values, as a
\* number when it is integral and with one decimal otherwise.
ContractMedian(hs) ==
    IF Len(hs) % 2 = 1 THEN Num(hs[(Len(hs) + 1) \div 2])
    ELSE LET two == hs[Len(hs) \div 2] + hs[Len(hs) \div 2 + 1]
         IN  IF two % 2 = 0 THEN Num(two \div 2) ELSE Str(ToFixed1(two, 2))

\* C9: medianHealthScore is the median of the health scores sorted ascending,
\* rounded to one decimal only when non-integral: 25 for [10, 20, 30, 40] and
\* 20 for [10, 20, 30].
C9_MedianValue ==
    (~filtered.threw /\ HealthAllNumbers /\ filtered.value # <<>>) =>
       /\ stats.medianHS = ContractMedian(Hs(filtered.value))
       /\ HealthValues(filtered.value) = <<Num(10), Num(20), Num(30), Num(40)>>
            => stats.medianHS = Num(25)
       /\ HealthValues(filtered.value) = <<Num(10), Num(20), Num(30)>>
            => stats.medianHS = Num(20)

\* C11: for an empty filtered list the statistics are total 0 and the
\* sentinel for the average ready time, the median health score and the
\* distinct cuisine count.
C11_EmptyListStats ==
    LET f == filtered
    IN  (~f.threw /\ f.value = <<>>) =>
           LET st == stats
           IN  /\ st.total = 0
               /\ st.avgReady = Sentinel
               /\ st.medianHS = Sentinel
               /\ st.cuisines = Sentinel

\* Loaded recipes carry numbers and cuisines, the query leaves none of them,
\* and the four statistics are 0 and three sentinels.
C11_Witness ==
    /\ view = "list"
    /\ AppRendered = "Dashboard"
    /\ Len(app.recipes) >= 2
    /\ Len(Ready(app.recipes)) >= 2
    /\ CuisineSet(app.recipes) # {}
    /\ Trim(query) # <<>>
    /\ filtered = [threw |-> FALSE, value |-> <<>>]
    /\ stats = [total |-> 0, avgReady |-> Sentinel, medianHS |-> Sentinel,
                cuisines |-> Sentinel]

-----------------------------------------------------------------------------
(* Properties of the key-nutrient series *)

\* The nutrition record the detail view holds, if any.
HeldNutrition == IF detail.data = None THEN Undefined ELSE detail.data[1].nutrition

\* The entries of the held record: those of its nutrients array, none when
\* the record is empty or malformed.
HeldEntries ==
    IF HeldNutrition.t = "object" /\ HeldNutrition.nutrients.t = "array"
    THEN HeldNutrition.nutrients.v
    ELSE <<>>

\* Positions of the entries named exactly key.
Named(key) ==
    {k \in 1..Len(HeldEntries) :
        HeldEntries[k].t = "object" /\ HeldEntries[k].name = Str(key)}

DefaultUnit(key) == IF key = Calories THEN Str(Kcal) ELSE Str(Gram)

\* C10: the key-nutrient series has exactly six entries in the order Calories,
\* Protein, Fat, Carbohydrates, Fiber, Sugar; an entry is taken from the first
\* nutrient of exactly that name, and a nutrient missing from the record
\* yields amount 0 with the default unit (kcal for Calories, g otherwise).
C10_KeyNutrientSeries ==
    /\ Len(barData) = 6
    /\ [k \in 1..6 |-> barData[k].name] =
          <<Calories, Protein, Fat, Carbohydrates, Fiber, Sugar>>
    /\ \A k \in 1..6 :
          LET key == barData[k].name
          IN  /\ Named(key) = {} =>
                   /\ barData[k].amount = Num(0)
                   /\ barData[k].unit = DefaultUnit(key)
              /\ Named(key) # {} =>
                   \E j \in Named(key) :
                      /\ \A i \in Named(key) : j <= i
                      /\ barData[k].amount = ToNumber(HeldEntries[j].amount)
                      /\ barData[k].unit \in {HeldEntries[j].unit, DefaultUnit(key)}

\* The held record has Calories and an entry named fiber in lower case but
\* none named Fiber: the series has Fiber with amount 0 and unit g.
C10_Witness ==
    /\ view = "detail"
    /\ DetailRendered = "Recipe"
    /\ Named(Fiber) = {}
    /\ Named(Calories) # {}
    /\ \E k \in 1..Len(HeldEntries) :
          /\ HeldEntries[k].t = "object"
          /\ HeldEntries[k].name = Str(<<"f","i","b","e","r">>)
    /\ barData[5] = [name |-> Fiber, amount |-> Num(0), unit |-> Str(Gram)]
    /\ barData[1] = [name |-> Calories, amount |-> Num(250), unit |-> Str(Kcal)]

====
